---- MODULE Spec2Model ----
(***************************************************************************)
(* Model of the qpidfile crate (src/lib.rs): Pidfile::new writes the       *)
(* decimal process id to a file, Drop for Pidfile removes that file.       *)
(*                                                                         *)
(* The program's state is the filesystem it acts on, the error stream it   *)
(* prints to and the Pidfile values it has produced.  The filesystem is    *)
(* shared with other processes, so external actors (delete, write, rename, *)
(* chmod of the directory, change of free space) are actions as well.      *)
(*                                                                         *)
(* File contents are sequences of bytes (ASCII codes).  The error stream   *)
(* is taken to accept every write (eprintln! on a writable stderr).        *)
(***************************************************************************)
EXTENDS Integers, Sequences, FiniteSets, TLC

\* ------------------------------------------------------------- bounds
\* Number of Pidfile::new calls a behaviour makes.
MaxCalls == 2

\* ------------------------------------------------------------ universe
Calls == 1..MaxCalls

\* Two paths in the existing directory "run", one in a directory that
\* does not exist.
RunPaths == {"run/a.pid", "run/b.pid"}
NoDirPaths == {"nodir/x.pid"}
Paths == RunPaths \cup NoDirPaths
NoPath == "-"

ParentExists(p) == p \in RunPaths

\* Process ids the process may have (process::id() is a u32).
Pids == {7, 1024}

Absent == [exists |-> FALSE, data |-> <<>>]
File(bytes) == [exists |-> TRUE, data |-> bytes]

\* Contents an external actor may leave at a path: "999999999" and "7\n".
StaleContents == { <<57, 57, 57, 57, 57, 57, 57, 57, 57>>, <<55, 10>> }

\* Free space the volume may have, in bytes: full, room for part of a
\* pid, room for any pid.
SpaceLevels == {0, 2, 4}

Min(a, b) == IF a < b THEN a ELSE b

VARIABLES
  fs,          \* path -> Absent or File(bytes): the files at the paths
  dirW,        \* whether directory "run" grants write permission
  space,       \* bytes the volume still accepts
  pid,         \* the id of this process (process::id())
  cstate,      \* call -> "none" | "active" | "released" | "failed"
  cpath,       \* call -> the fname the call was given (Pidfile.fname)
  rmAttempts,  \* call -> number of remove_file calls made for its handle
  stderr,      \* the diagnostics printed, in order
  last         \* the operation that ran last: what it returned, and the
               \* file it found at its path

vars == <<fs, dirW, space, pid, cstate, cpath, rmAttempts, stderr, last>>

\* ------------------------------------------------------- pure helpers

\* format!("{}", n) for an unsigned integer, as ASCII bytes.
\* Variant: the digits come out least significant first.
RECURSIVE FmtU32_lsd(_)
FmtU32_lsd(n) ==
  IF n < 10 THEN <<48 + n>>
  ELSE <<48 + (n % 10)>> \o FmtU32_lsd(n \div 10)
RECURSIVE FmtU32(_)
FmtU32(n) ==
  IF n < 10 THEN <<48 + n>>
  ELSE Append(FmtU32(n \div 10), 48 + (n % 10))

\* File::create: open for writing, create if absent, truncate if present.
\* Variant: opens without truncating (OpenOptions write + create).
File_create_notrunc(f, dw, p) ==
  IF ~ParentExists(p) THEN [err |-> "NotFound", fs |-> f]
  ELSE IF f[p].exists THEN [err |-> "", fs |-> f]
  ELSE IF ~dw THEN [err |-> "PermissionDenied", fs |-> f]
  ELSE [err |-> "", fs |-> [f EXCEPT ![p] = File(<<>>)]]
\* Variant: refuses a path that exists (create_new).
File_create_excl(f, dw, p) ==
  IF ~ParentExists(p) THEN [err |-> "NotFound", fs |-> f]
  ELSE IF f[p].exists THEN [err |-> "AlreadyExists", fs |-> f]
  ELSE IF ~dw THEN [err |-> "PermissionDenied", fs |-> f]
  ELSE [err |-> "", fs |-> [f EXCEPT ![p] = File(<<>>)]]
File_create(f, dw, p) ==
  IF ~ParentExists(p) THEN [err |-> "NotFound", fs |-> f]
  ELSE IF f[p].exists THEN [err |-> "", fs |-> [f EXCEPT ![p] = File(<<>>)]]
  ELSE IF ~dw THEN [err |-> "PermissionDenied", fs |-> f]
  ELSE [err |-> "", fs |-> [f EXCEPT ![p] = File(<<>>)]]

\* Write::write_all on the file just opened at p (position 0): stores the
\* bytes over what is there; fails once the volume is full, leaving the
\* bytes that did fit.
Overwrite(old, bytes) ==
  bytes \o SubSeq(old, Len(bytes) + 1, Len(old))
\* Variant: a single write whose short count is not looked at.
write_all_short(f, sp, p, bytes) ==
  LET n == Min(sp, Len(bytes))
      stored == Overwrite(f[p].data, SubSeq(bytes, 1, n))
  IN [err   |-> "",
      fs    |-> [f EXCEPT ![p] = File(stored)],
      space |-> sp - n]
write_all(f, sp, p, bytes) ==
  LET n == Min(sp, Len(bytes))
      stored == Overwrite(f[p].data, SubSeq(bytes, 1, n))
  IN [err   |-> IF n < Len(bytes) THEN "StorageFull" ELSE "",
      fs    |-> [f EXCEPT ![p] = File(stored)],
      space |-> sp - n]

\* std::fs::remove_file.
remove_file(f, dw, p) ==
  IF ~ParentExists(p) \/ ~f[p].exists THEN [err |-> "NotFound", fs |-> f]
  ELSE IF ~dw THEN [err |-> "PermissionDenied", fs |-> f]
  ELSE [err |-> "", fs |-> [f EXCEPT ![p] = Absent]]

\* ------------------------------------------------------------ initial
Init ==
  /\ fs \in [Paths -> {Absent} \cup {File(b) : b \in StaleContents}]
  /\ \A p \in NoDirPaths : fs[p] = Absent
  /\ dirW \in BOOLEAN
  /\ space \in SpaceLevels
  /\ pid \in Pids
  /\ cstate = [c \in Calls |-> "none"]
  /\ cpath = [c \in Calls |-> NoPath]
  /\ rmAttempts = [c \in Calls |-> 0]
  /\ stderr = <<>>
  /\ last = [op |-> "init", c |-> 0, path |-> NoPath, res |-> "", old |-> Absent]

\* ------------------------------------------------------------ program

\* The next call is numbered after the calls made so far.
Fresh(c) == cstate[c] = "none" /\ \A d \in Calls : d < c => cstate[d] # "none"

\* Variant: the handle keeps a fixed path instead of fname.
new_default_path(c, fname) ==
  /\ Fresh(c)
  /\ LET cr == File_create(fs, dirW, fname) IN
     IF cr.err # "" THEN
       /\ fs' = cr.fs
       /\ space' = space
       /\ cstate' = [cstate EXCEPT ![c] = "failed"]
       /\ last' = [op |-> "new", c |-> c, path |-> fname, res |-> "ErrOpen",
                   old |-> fs[fname]]
     ELSE
       LET wr == write_all(cr.fs, space, fname, FmtU32(pid)) IN
       /\ fs' = wr.fs
       /\ space' = wr.space
       /\ IF wr.err # "" THEN
            /\ cstate' = [cstate EXCEPT ![c] = "failed"]
            /\ last' = [op |-> "new", c |-> c, path |-> fname, res |-> "ErrWrite",
                   old |-> fs[fname]]
          ELSE
            /\ cstate' = [cstate EXCEPT ![c] = "active"]
            /\ last' = [op |-> "new", c |-> c, path |-> fname, res |-> "Ok",
                   old |-> fs[fname]]
  /\ cpath' = [cpath EXCEPT ![c] = "run/a.pid"]
  /\ UNCHANGED <<dirW, pid, rmAttempts, stderr>>
\* Pidfile::new(fname)
new(c, fname) ==
  /\ Fresh(c)
  /\ LET cr == File_create(fs, dirW, fname) IN
     IF cr.err # "" THEN
       /\ fs' = cr.fs
       /\ space' = space
       /\ cstate' = [cstate EXCEPT ![c] = "failed"]
       /\ last' = [op |-> "new", c |-> c, path |-> fname, res |-> "ErrOpen",
                   old |-> fs[fname]]
     ELSE
       LET wr == write_all(cr.fs, space, fname, FmtU32(pid)) IN
       /\ fs' = wr.fs
       /\ space' = wr.space
       /\ IF wr.err # "" THEN
            /\ cstate' = [cstate EXCEPT ![c] = "failed"]
            /\ last' = [op |-> "new", c |-> c, path |-> fname, res |-> "ErrWrite",
                   old |-> fs[fname]]
          ELSE
            /\ cstate' = [cstate EXCEPT ![c] = "active"]
            /\ last' = [op |-> "new", c |-> c, path |-> fname, res |-> "Ok",
                   old |-> fs[fname]]
  /\ cpath' = [cpath EXCEPT ![c] = fname]
  /\ UNCHANGED <<dirW, pid, rmAttempts, stderr>>

\* Variant: the value is built before the open, so a failed call drops too.
drop_on_failed(c) ==
  /\ cstate[c] \in {"active", "failed"}
  /\ LET r == remove_file(fs, dirW, cpath[c]) IN
     /\ fs' = r.fs
     /\ stderr' = IF r.err # ""
                  THEN Append(stderr, [fname |-> cpath[c], err |-> r.err])
                  ELSE stderr
  /\ rmAttempts' = [rmAttempts EXCEPT ![c] = @ + 1]
  /\ cstate' = [cstate EXCEPT ![c] = "released"]
  /\ last' = [op |-> "drop", c |-> c, path |-> cpath[c], res |-> "unit",
              old |-> fs[cpath[c]]]
  /\ UNCHANGED <<dirW, space, pid, cpath>>
\* Variant: the removal's error is unwrapped instead of printed.
drop_unwrap(c) ==
  /\ cstate[c] = "active"
  /\ LET r == remove_file(fs, dirW, cpath[c]) IN
     /\ fs' = r.fs
     /\ stderr' = stderr
     /\ last' = [op |-> "drop", c |-> c, path |-> cpath[c],
                 res |-> IF r.err # "" THEN "panic" ELSE "unit",
                 old |-> fs[cpath[c]]]
  /\ rmAttempts' = [rmAttempts EXCEPT ![c] = @ + 1]
  /\ cstate' = [cstate EXCEPT ![c] = "released"]
  /\ UNCHANGED <<dirW, space, pid, cpath>>
\* Variant: the removal's error is discarded without a diagnostic.
drop_silent(c) ==
  /\ cstate[c] = "active"
  /\ LET r == remove_file(fs, dirW, cpath[c]) IN
     /\ fs' = r.fs
     /\ stderr' = stderr
  /\ rmAttempts' = [rmAttempts EXCEPT ![c] = @ + 1]
  /\ cstate' = [cstate EXCEPT ![c] = "released"]
  /\ last' = [op |-> "drop", c |-> c, path |-> cpath[c], res |-> "unit",
              old |-> fs[cpath[c]]]
  /\ UNCHANGED <<dirW, space, pid, cpath>>
\* Variant: a failed removal is tried a second time.
drop_retry(c) ==
  /\ cstate[c] = "active"
  /\ LET r1 == remove_file(fs, dirW, cpath[c])
         r == IF r1.err # "" THEN remove_file(r1.fs, dirW, cpath[c]) ELSE r1 IN
     /\ fs' = r.fs
     /\ rmAttempts' = [rmAttempts EXCEPT ![c] = @ + (IF r1.err # "" THEN 2 ELSE 1)]
     /\ stderr' = IF r.err # ""
                  THEN Append(stderr, [fname |-> cpath[c], err |-> r.err])
                  ELSE stderr
  /\ cstate' = [cstate EXCEPT ![c] = "released"]
  /\ last' = [op |-> "drop", c |-> c, path |-> cpath[c], res |-> "unit",
              old |-> fs[cpath[c]]]
  /\ UNCHANGED <<dirW, space, pid, cpath>>
\* Drop for Pidfile: runs once, when the value goes out of scope.
drop(c) ==
  /\ cstate[c] = "active"
  /\ LET r == remove_file(fs, dirW, cpath[c]) IN
     /\ fs' = r.fs
     /\ stderr' = IF r.err # ""
                  THEN Append(stderr, [fname |-> cpath[c], err |-> r.err])
                  ELSE stderr
  /\ rmAttempts' = [rmAttempts EXCEPT ![c] = @ + 1]
  /\ cstate' = [cstate EXCEPT ![c] = "released"]
  /\ last' = [op |-> "drop", c |-> c, path |-> cpath[c], res |-> "unit",
              old |-> fs[cpath[c]]]
  /\ UNCHANGED <<dirW, space, pid, cpath>>

\* -------------------------------------------------------- environment
Ext == [op |-> "ext", c |-> 0, path |-> NoPath, res |-> "", old |-> Absent]

ExtDelete(p) ==
  /\ fs[p].exists
  /\ fs' = [fs EXCEPT ![p] = Absent]
  /\ last' = Ext
  /\ UNCHANGED <<dirW, space, pid, cstate, cpath, rmAttempts, stderr>>

ExtWrite(p, bytes) ==
  /\ fs[p] # File(bytes)
  /\ fs' = [fs EXCEPT ![p] = File(bytes)]
  /\ last' = Ext
  /\ UNCHANGED <<dirW, space, pid, cstate, cpath, rmAttempts, stderr>>

ExtRename(p, q) ==
  /\ p # q
  /\ fs[p].exists
  /\ fs' = [fs EXCEPT ![q] = fs[p], ![p] = Absent]
  /\ last' = Ext
  /\ UNCHANGED <<dirW, space, pid, cstate, cpath, rmAttempts, stderr>>

ExtChmodDir ==
  /\ dirW' = ~dirW
  /\ last' = Ext
  /\ UNCHANGED <<fs, space, pid, cstate, cpath, rmAttempts, stderr>>

ExtSetSpace(n) ==
  /\ n # space
  /\ space' = n
  /\ last' = Ext
  /\ UNCHANGED <<fs, dirW, pid, cstate, cpath, rmAttempts, stderr>>

Next ==
  \/ \E c \in Calls, p \in Paths : new(c, p)
  \/ \E c \in Calls : drop(c)
  \/ \E p \in RunPaths : ExtDelete(p)
  \/ \E p \in RunPaths, b \in StaleContents : ExtWrite(p, b)
  \/ \E p \in RunPaths, q \in RunPaths : ExtRename(p, q)
  \/ ExtChmodDir
  \/ \E n \in SpaceLevels : ExtSetSpace(n)

Spec == Init /\ [][Next]_vars

\* ---------------------------------------------------------- properties

\* Reading a pidfile back: the bytes are decimal digits without sign,
\* padding or anything after them, and they denote n.
IsDecimal(b) ==
  /\ Len(b) >= 1
  /\ \A i \in 1..Len(b) : b[i] \in 48..57
  /\ (Len(b) > 1 => b[1] # 48)
RECURSIVE ParseDecimal(_)
ParseDecimal(b) ==
  IF Len(b) = 0 THEN 0
  ELSE 10 * ParseDecimal(SubSeq(b, 1, Len(b) - 1)) + (b[Len(b)] - 48)
IsPidString(b) == IsDecimal(b) /\ ParseDecimal(b) = pid

\* The file at p exists and holds exactly the pid string.
HoldsPid(f, p) == f[p].exists /\ IsPidString(f[p].data)

\* The step is call c's Pidfile::new / the drop of call c's handle.
NewStep(c) == cstate[c] = "none" /\ cstate'[c] # "none"
DropStep(c) == cstate[c] = "active" /\ cstate'[c] = "released"

\* What File::create and remove_file are refused for, read off the
\* filesystem: the parent directory is missing, or the directory entry
\* has to be added or removed and the directory grants no write permission.
OpenRefused(p) == ~ParentExists(p) \/ (~fs[p].exists /\ ~dirW)
RemoveRefused(p) == ~ParentExists(p) \/ ~fs[p].exists \/ ~dirW

\* C1: whenever Pidfile::new returns Ok, the file at the path exists and
\* its content is exactly the base-10 digits of the process id: no leading
\* zeros, no sign, no newline, no other bytes.
C1_ContentIsPid ==
  (last.op = "new" /\ last.res = "Ok") =>
     /\ fs[last.path].exists
     /\ IsDecimal(fs[last.path].data)
     /\ ParseDecimal(fs[last.path].data) = pid
C1_Witness ==
  /\ last.op = "new" /\ last.res = "Ok"
  /\ pid = 1024
  /\ fs[last.path] = File(<<49, 48, 50, 52>>)

\* C2 as stated: once Drop has run, the file at the handle's path no
\* longer exists.
C2_Original ==
  last.op = "drop" => ~fs[last.path].exists
\* C2 amended: once Drop has run, the file at the handle's path no longer
\* exists, unless remove_file was refused for lack of permission: then the
\* file is left as it was and the diagnostic names the path and the error.
C2_RemovedUnlessDenied ==
  last.op = "drop" =>
     \/ ~fs[last.path].exists
     \/ /\ fs[last.path] = last.old
        /\ ~dirW
        /\ stderr # <<>>
        /\ stderr[Len(stderr)] = [fname |-> last.path, err |-> "PermissionDenied"]
C2_Witness ==
  /\ last.op = "drop"
  /\ last.old.exists
  /\ ~fs[last.path].exists
  /\ stderr = <<>>

\* C3 as stated: in every state in which a handle is alive, the file at
\* its path exists and holds the pid string.
C3_Original ==
  \A c \in Calls : cstate[c] = "active" => HoldsPid(fs, cpath[c])
\* C3 amended: a handle is born with the file at its path holding the pid
\* string, and while it is alive the file stays so across every step
\* except one that acts on the path from outside the handle: an external
\* actor, the release of another handle on the same path, or another
\* Pidfile::new on the same path that fails in the write.
C3_LiveFileUntilDisturbed ==
  [][\A c \in Calls :
       cstate'[c] = "active" =>
          \/ HoldsPid(fs', cpath'[c])
          \/ (cstate[c] = "active" /\ ~HoldsPid(fs, cpath[c]))
          \/ (last'.op = "ext" /\ fs' # fs)
          \/ (last'.op = "drop" /\ last'.c # c /\ last'.path = cpath[c])
          \/ (last'.op = "new" /\ last'.c # c /\ last'.path = cpath[c]
                /\ last'.res = "ErrWrite")]_vars
C3_Witness ==
  \E c \in Calls :
     /\ cstate[c] = "active"
     /\ HoldsPid(fs, cpath[c])
     /\ last.op = "drop" /\ last.c # c /\ last.old.exists

C5_OpenFailure ==
  [][\A c \in Calls :
       /\ (NewStep(c) /\ OpenRefused(last'.path)) =>
             /\ last'.res = "ErrOpen"
             /\ cstate'[c] = "failed"
             /\ fs' = fs
             /\ stderr' = stderr
       /\ (NewStep(c) /\ last'.res = "ErrOpen") => OpenRefused(last'.path)
       /\ cstate[c] = "failed" =>
             /\ cstate'[c] = "failed"
             /\ rmAttempts'[c] = 0
             /\ last'.c # c]_vars
C5_Witness ==
  /\ cstate[1] = "failed" /\ cpath[1] \in RunPaths
  /\ rmAttempts[1] = 0
  /\ cstate[2] = "released" /\ cpath[2] = cpath[1]
  /\ last.op = "drop"

\* C6: when the removal in release fails (file already gone, permission
\* error, path renamed away), release raises nothing: it prints exactly one
\* diagnostic, makes one attempt only, leaves the filesystem as it was, and
\* the handle is released.
C6_RemovalFailure ==
  [][\A c \in Calls :
       (DropStep(c) /\ RemoveRefused(cpath[c])) =>
          /\ last'.op = "drop" /\ last'.c = c /\ last'.res = "unit"
          /\ Len(stderr') = Len(stderr) + 1
          /\ SubSeq(stderr', 1, Len(stderr)) = stderr
          /\ stderr'[Len(stderr')].fname = cpath[c]
          /\ rmAttempts'[c] = rmAttempts[c] + 1
          /\ fs' = fs
          /\ cstate'[c] = "released"]_vars
C6_Witness ==
  /\ last.op = "drop" /\ last.res = "unit"
  /\ ~last.old.exists
  /\ Len(stderr) = 1
  /\ stderr[1] = [fname |-> last.path, err |-> "NotFound"]
  /\ cstate[last.c] = "released"

\* C7 as stated: when the write fails after the file was opened, no handle
\* is produced and no partial-write state is left: the path is as it was
\* before the call (not newly created, truncated or partly written).
C7_NoPartialWrite ==
  (last.op = "new" /\ last.res = "ErrWrite") =>
     /\ cstate[last.c] # "active"
     /\ fs[last.path] = last.old

C9_OneRemovalAttempt ==
  [][\A c \in Calls :
       /\ rmAttempts'[c] = (IF cstate'[c] = "released" THEN 1 ELSE 0)
       /\ cstate[c] = "active" => cstate'[c] \in {"active", "released"}
       /\ cstate'[c] = "active" => cstate[c] \in {"none", "active"}
       /\ cstate[c] = "released" =>
             /\ cstate'[c] = "released"
             /\ cpath'[c] = cpath[c]
             /\ last'.c # c]_vars
C9_Witness ==
  \E c \in Calls :
     /\ cstate[c] = "released" /\ rmAttempts[c] = 1
     /\ last.op = "new" /\ last.c # c /\ last.path = cpath[c]

\* C10: creating or releasing a handle touches only the path given to its
\* Pidfile::new, which the handle keeps unchanged for its lifetime: the
\* files at other paths and the other handles are left as they were.
C10_OtherPathsUntouched ==
  [][\A c \in Calls :
       /\ NewStep(c) =>
             /\ cpath'[c] = last'.path
             /\ \A q \in Paths : q # last'.path => fs'[q] = fs[q]
       /\ DropStep(c) =>
             \A q \in Paths : q # cpath[c] => fs'[q] = fs[q]
       /\ (NewStep(c) \/ DropStep(c)) =>
             \A d \in Calls : d # c =>
                /\ cstate'[d] = cstate[d]
                /\ cpath'[d] = cpath[d]
                /\ rmAttempts'[d] = rmAttempts[d]
       /\ cstate[c] \in {"active", "released"} => cpath'[c] = cpath[c]]_vars
C10_Witness ==
  /\ cstate[1] = "active" /\ cstate[2] = "released"
  /\ cpath[1] # cpath[2]
  /\ HoldsPid(fs, cpath[1])
  /\ last.op = "drop" /\ last.c = 2 /\ last.old.exists
  /\ ~fs[cpath[2]].exists

====
